---------------------------- MODULE Spec2Model ----------------------------
(***************************************************************************)
(* Model of polyCourse2Calendar.py: the Group / Course / Courses record    *)
(* model, the timetable and alternance CSV ingestion, the group merging    *)
(* pass and the calendar expansion of generate_ics_file.                   *)
(*                                                                         *)
(* Representation of Python values:                                        *)
(*  - a comma-joined "HHMM,HHMM" string is the sequence of its tokens, and *)
(*    a token "HHMM" is the number HHMM (lexicographic order on four-digit *)
(*    strings is numeric order); <<>> is the empty string;                 *)
(*  - a dict is a function whose DOMAIN is the set of keys present;        *)
(*  - a datetime at midnight is its day number within 2024 (Jan 1 = 1);    *)
(*  - str.lower / str.upper / str.strip are tables over the strings used.  *)
(***************************************************************************)
EXTENDS Integers, Sequences, FiniteSets

VARIABLES
    pc,                 \* position of the running code
    row,                \* loop variable `row` of the CSV reader in progress
    line_num,           \* number of data rows the CSV reader has yielded
    courses,            \* Courses.courses : sigle -> Course
    added,              \* history: the (group_type, Group) pairs given to add_group
    applied,            \* number of merge_groups calls made so far
    week_map,           \* read_alternance_csv's week_map : date -> info
    courses_to_convert, \* the selection handed to generate_ics_file
    events              \* calendar.events, in emission order

vars == <<pc, row, line_num, courses, added, applied, week_map,
          courses_to_convert, events>>

-----------------------------------------------------------------------------
(* Bounds of the model *)

MaxAdds == 3
MaxMerges == 2
MaxBucketLen == 2

-----------------------------------------------------------------------------
(* Python string and list primitives *)

Range(s) == {s[i] : i \in 1..Len(s)}

Lower(s) ==
    CASE s = "C" -> "c"
      [] s = "L" -> "l"
      [] s = "X" -> "x"
      [] s = "B1" -> "b1"
      [] s = "B2" -> "b2"
      [] s = "every_week" -> "every_week"
      [] OTHER -> s

Upper(s) ==
    CASE s = "lun" -> "LUN"
      [] s = "mar" -> "MAR"
      [] s = "lundi" -> "LUNDI"
      [] s = "mardi" -> "MARDI"
      [] s = "b1" -> "B1"
      [] s = "b2" -> "B2"
      [] OTHER -> s

Strip(s) ==
    CASE s = " mardi " -> "mardi"
      [] s = " b2" -> "b2"
      [] OTHER -> s

RECURSIVE Insert(_, _)
Insert(x, s) ==
    IF s = <<>> THEN <<x>>
    ELSE IF x < Head(s) THEN <<x>> \o s
    ELSE <<Head(s)>> \o Insert(x, Tail(s))

RECURSIVE Sorted(_)
Sorted(s) == IF s = <<>> THEN <<>> ELSE Insert(Head(s), Sorted(Tail(s)))

-----------------------------------------------------------------------------
(* class Group *)

GroupInitUnsorted(number, week_day, room, course_length, frequency, hour) ==
    [number |-> number, week_day |-> week_day, room |-> room,
     course_length |-> course_length, frequency |-> frequency, hour |-> hour]

GroupInit(number, week_day, room, course_length, frequency, hour) ==
    [number |-> number, week_day |-> week_day, room |-> room,
     course_length |-> course_length, frequency |-> frequency,
     hour |-> Sorted(hour)]

-----------------------------------------------------------------------------
(* class Course *)

CourseInit(sigle, name, nb_credit) ==
    [sigle |-> sigle, name |-> name, nb_credit |-> nb_credit,
     theo_groups |-> <<>>, lab_groups |-> <<>>]

GroupKey(group) == <<group.week_day, group.room, group.frequency>>

\* the keys of merged_groups, in first-insertion order
RECURSIVE KeyOrder(_)
KeyOrder(group_list) ==
    IF group_list = <<>> THEN <<>>
    ELSE LET front == KeyOrder(SubSeq(group_list, 1, Len(group_list) - 1))
             key == GroupKey(group_list[Len(group_list)])
         IN  IF key \in Range(front) THEN front ELSE Append(front, key)

DurationCountsGroups(key, group_list) ==
    Cardinality({i \in 1..Len(group_list) : GroupKey(group_list[i]) = key})

\* merged_groups[key]
RECURSIVE Duration(_, _)
Duration(key, group_list) ==
    IF group_list = <<>> THEN 0
    ELSE (IF GroupKey(Head(group_list)) = key
          THEN Head(group_list).course_length ELSE 0)
         + Duration(key, Tail(group_list))

\* ','.join(hour_map[key])
RECURSIVE Hours(_, _)
Hours(key, group_list) ==
    IF group_list = <<>> THEN <<>>
    ELSE (IF GroupKey(Head(group_list)) = key
          THEN Head(group_list).hour ELSE <<>>)
         \o Hours(key, Tail(group_list))

MergedListNoCollapse(number, group_list) ==
    [i \in 1..Len(group_list) |->
        GroupInit(number, group_list[i].week_day, group_list[i].room,
                  Duration(GroupKey(group_list[i]), group_list),
                  group_list[i].frequency,
                  Hours(GroupKey(group_list[i]), group_list))]

MergedListLastLength(number, group_list) ==
    LET keys == KeyOrder(group_list)
        last(key) == CHOOSE i \in 1..Len(group_list) :
                        /\ GroupKey(group_list[i]) = key
                        /\ \A j \in (i + 1)..Len(group_list) :
                              GroupKey(group_list[j]) # key
    IN  [i \in 1..Len(keys) |->
            GroupInit(number, keys[i][1], keys[i][2],
                      group_list[last(keys[i])].course_length, keys[i][3],
                      Hours(keys[i], group_list))]

\* the list assigned to groups[number]
MergedList(number, group_list) ==
    LET keys == KeyOrder(group_list)
    IN  [i \in 1..Len(keys) |->
            GroupInit(number, keys[i][1], keys[i][2],
                      Duration(keys[i], group_list), keys[i][3],
                      Hours(keys[i], group_list))]

MergeGroupType(groups) ==
    [number \in DOMAIN groups |-> MergedList(number, groups[number])]

MergeGroups(course) ==
    [course EXCEPT !.theo_groups = MergeGroupType(course.theo_groups),
                   !.lab_groups = MergeGroupType(course.lab_groups)]

\* self.x_groups[number].append(group) on a defaultdict(list)
AppendTo(groups, number, group) ==
    [n \in DOMAIN groups \cup {number} |->
        IF n = number
        THEN Append(IF n \in DOMAIN groups THEN groups[n] ELSE <<>>, group)
        ELSE groups[n]]

AddGroup(course, group_type, group) ==
    MergeGroups(
        IF Lower(group_type) = "c"
        THEN [course EXCEPT !.theo_groups = AppendTo(@, group.number, group)]
        ELSE IF Lower(group_type) = "l"
        THEN [course EXCEPT !.lab_groups = AppendTo(@, group.number, group)]
        ELSE course)

GetSpecificGroupDefaultTheo(course, group_type, group_number) ==
    IF Lower(group_type) = "l"
    THEN (IF group_number \in DOMAIN course.lab_groups
          THEN course.lab_groups[group_number] ELSE <<>>)
    ELSE (IF group_number \in DOMAIN course.theo_groups
          THEN course.theo_groups[group_number] ELSE <<>>)

\* a missing bucket (None) and an empty list are both <<>>: the caller only
\* tests `if groups`
GetSpecificGroup(course, group_type, group_number) ==
    IF Lower(group_type) = "c"
    THEN (IF group_number \in DOMAIN course.theo_groups
          THEN course.theo_groups[group_number] ELSE <<>>)
    ELSE IF Lower(group_type) = "l"
    THEN (IF group_number \in DOMAIN course.lab_groups
          THEN course.lab_groups[group_number] ELSE <<>>)
    ELSE <<>>

-----------------------------------------------------------------------------
(* Values the Course methods are called with *)

SIGLE == "LOG1810"
NAME == "Elements de logiciel"

GroupTypes == {"c", "L", "x"}
Numbers == {1, 2}
Keys == {<<"LUN", "B-2325", "B1">>, <<"LUN", "B-2325", "every_week">>,
         <<"MAR", "L-4708", "B1">>}
\* (course_length, hour string) of a Group handed to the constructor
Shapes == {<<1, <<830>>>>, <<2, <<930, 830>>>>}

RawGroups ==
    {GroupInit(n, k[1], k[2], sh[1], k[3], sh[2]) :
        n \in Numbers, k \in Keys, sh \in Shapes}

SeqsUpTo(S, n) == UNION {[1..m -> S] : m \in 0..n}

RECURSIVE SumFn(_)
SumFn(f) ==
    IF DOMAIN f = {} THEN 0
    ELSE LET x == CHOOSE x \in DOMAIN f : TRUE
         IN  f[x] + SumFn([y \in DOMAIN f \ {x} |-> f[y]])

Count(tok, s) == Cardinality({i \in 1..Len(s) : s[i] = tok})

NoCourses == [s \in {} |-> 0]
NoHistory == [s \in {} |-> 0]
NoRow == <<>>

-----------------------------------------------------------------------------
(* Specification SpecMerge: merge_groups applied to an arbitrary Course     *)

InitMerge ==
    /\ pc = "course"
    /\ row = NoRow
    /\ line_num = 0
    /\ \E theo \in [{1} -> SeqsUpTo(RawGroups, MaxBucketLen)],
          lab \in [{2} -> SeqsUpTo({g \in RawGroups : g.course_length = 1}, 1)] :
            courses = [s \in {SIGLE} |->
                        [CourseInit(SIGLE, NAME, 3) EXCEPT
                            !.theo_groups = theo, !.lab_groups = lab]]
    /\ added = NoHistory
    /\ applied = 0
    /\ week_map = <<>>
    /\ courses_to_convert = <<>>
    /\ events = <<>>

CallMergeGroups ==
    /\ pc = "course"
    /\ applied < MaxMerges
    /\ courses' = [courses EXCEPT ![SIGLE] = MergeGroups(@)]
    /\ applied' = applied + 1
    /\ UNCHANGED <<pc, row, line_num, added, week_map, courses_to_convert, events>>

NextMerge == CallMergeGroups

SpecMerge == InitMerge /\ [][NextMerge]_vars

-----------------------------------------------------------------------------
(* Specification SpecCourse: any sequence of add_group calls on one Course  *)

InitCourse ==
    /\ pc = "course"
    /\ row = NoRow
    /\ line_num = 0
    /\ courses = [s \in {SIGLE} |-> CourseInit(SIGLE, NAME, 3)]
    /\ added = NoHistory
    /\ applied = 0
    /\ week_map = <<>>
    /\ courses_to_convert = <<>>
    /\ events = <<>>

Record(history, call) ==
    [c \in DOMAIN history \cup {call} |->
        (IF c \in DOMAIN history THEN history[c] ELSE 0)
        + (IF c = call THEN 1 ELSE 0)]

NumAdded == SumFn(added)

CallAddGroup(group_type, group) ==
    /\ pc = "course"
    /\ NumAdded < MaxAdds
    /\ courses' = [courses EXCEPT ![SIGLE] = AddGroup(@, group_type, group)]
    /\ added' = Record(added, <<group_type, group, SIGLE>>)
    /\ UNCHANGED <<pc, row, line_num, applied, week_map, courses_to_convert, events>>

NextCourse ==
    \E group_type \in GroupTypes, group \in RawGroups :
        CallAddGroup(group_type, group)

SpecCourse == InitCourse /\ [][NextCourse]_vars

-----------------------------------------------------------------------------
(* Properties of merging *)

\* every bucket of every course: <<type, group number, Group list, sigle>>
Buckets ==
    UNION {
        {<<"c", n, courses[s].theo_groups[n], s>> :
            n \in DOMAIN courses[s].theo_groups}
        \cup
        {<<"l", n, courses[s].lab_groups[n], s>> :
            n \in DOMAIN courses[s].lab_groups} : s \in DOMAIN courses}

\* the recorded add_group calls <<group_type, Group, sigle>> that went to
\* bucket b with `key`
CallsFor(b, key) ==
    {c \in DOMAIN added : /\ c[3] = b[4]
                          /\ Lower(c[1]) = b[1]
                          /\ c[2].number = b[2]
                          /\ GroupKey(c[2]) = key}

\* C2: merging is idempotent: once merge_groups has been applied to a
\* Course, applying it again yields the same theoretical and lab mappings
\* (same Groups, same order, same fields).
C2_MergeIdempotent ==
    (pc = "course" /\ applied >= 1) =>
        MergeGroups(courses[SIGLE]) = courses[SIGLE]

C2_Witness ==
    /\ applied = 2
    /\ \E g \in Range(courses[SIGLE].theo_groups[1]) :
          g.course_length >= 3 /\ Len(g.hour) >= 3

IsSorted(s) == \A i \in 1..(Len(s) - 1) : s[i] <= s[i + 1]

\* C5 (as claimed): every Group's stored hour field is sorted and holds no
\* token twice.
C5_HourListDeduplicated ==
    \A b \in Buckets :
        \A g \in Range(b[3]) :
            /\ IsSorted(g.hour)
            /\ \A i, j \in 1..Len(g.hour) : g.hour[i] = g.hour[j] => i = j

\* C5 (amended): every Group's stored hour field is the sorted list of all
\* the hour tokens of its constituent raw Groups, each token kept as many
\* times as the raw Groups give it.
C5_HourListSortedMultiset ==
    \A b \in Buckets :
        \A g \in Range(b[3]) :
            /\ IsSorted(g.hour)
            /\ \A tok \in {830, 930} \cup Range(g.hour) :
                  Count(tok, g.hour) =
                     SumFn([c \in CallsFor(b, GroupKey(g)) |->
                               added[c] * Count(tok, c[2].hour)])

-----------------------------------------------------------------------------
(* Courses.read_csv_files                                                   *)
(* A row is the list of its fields; field i of the code (0-based) is        *)
(* row[i + 1].                                                              *)

MkRow(sigle, number, nb_credit, room, period_type, week_nb, course_type, name, week_day, hour) ==
    <<"", sigle, number, nb_credit, "", "", room, period_type, "", week_nb,
      course_type, name, "", week_day, hour>>

\* int(number)
IsIntString(str) == str \in {"1", "2"}
IntOf(str) == CASE str = "1" -> 1 [] str = "2" -> 2

\* int(float(nb_credit.replace(',', '.')))
IsFloatString(str) == str \in {"3,0", "3.5"}
CreditOf(str) == CASE str = "3,0" -> 3 [] str = "3.5" -> 3

Frequency(week_nb) ==
    IF week_nb = "I" THEN "B1"
    ELSE IF week_nb = "P" THEN "B2"
    ELSE "every_week"

TooShort(r) == Len(r) < 15

\* the 15-name unpacking raises ValueError, outside any try block
UnpackFails(r) == Len(r) # 15

HasEmptyField(r) ==
    \/ \E i \in {2, 3, 4, 7, 8, 11, 12, 14} : r[i] = ""
    \/ r[15] = <<>>

ParseFails(r) == ~IsIntString(r[3]) \/ ~IsFloatString(r[4])

RowGroup(r) == GroupInit(IntOf(r[3]), r[14], r[7], 1, Frequency(r[10]), r[15])

IngestRowByCourseType(cs, r) ==
    LET sigle == r[2]
        created == [s \in DOMAIN cs \cup {sigle} |->
                       IF s \in DOMAIN cs THEN cs[s]
                       ELSE CourseInit(sigle, r[12], CreditOf(r[4]))]
    IN  [created EXCEPT ![sigle] = AddGroup(@, Lower(r[11]), RowGroup(r))]

\* lines 132-137: the registry after an accepted row
IngestRow(cs, r) ==
    LET sigle == r[2]
        created == [s \in DOMAIN cs \cup {sigle} |->
                       IF s \in DOMAIN cs THEN cs[s]
                       ELSE CourseInit(sigle, r[12], CreditOf(r[4]))]
    IN  [created EXCEPT ![sigle] = AddGroup(@, Lower(r[8]), RowGroup(r))]

\* (sigle, number, week number flag, hour) of the timetable rows read
Slots == {<<"LOG1810", "1", "I", <<830>>>>,
          <<"LOG1810", "1", "I", <<930, 830>>>>,
          <<"LOG1810", "1", "", <<830>>>>,
          <<"INF1015", "2", "P", <<830>>>>}

ValidRows ==
    {MkRow(sl[1], sl[2], "3,0", "B-2325", period_type, sl[3], course_type,
           NAME, "LUN", sl[4]) :
        sl \in Slots, period_type \in {"C", "l", "X"}, course_type \in {"C", "L"}}

BaseRow == MkRow("LOG1810", "1", "3,0", "B-2325", "C", "I", "C", NAME, "LUN", <<830>>)

MalformedRows ==
    {SubSeq(BaseRow, 1, 14),
     Append(BaseRow, ""),
     [BaseRow EXCEPT ![2] = ""],
     [BaseRow EXCEPT ![15] = <<>>],
     [BaseRow EXCEPT ![3] = "x"],
     [BaseRow EXCEPT ![4] = "abc"]}

Rows == ValidRows \cup MalformedRows

MaxRows == 2

Init ==
    /\ pc = "read_csv"
    /\ row = NoRow
    /\ line_num = 0
    /\ courses = NoCourses
    /\ added = NoHistory
    /\ applied = 0
    /\ week_map = <<>>
    /\ courses_to_convert = <<>>
    /\ events = <<>>

\* one iteration of `for row in reader` (lines 109-137) on registry cs, with
\* the add_group calls made so far in hist
AfterRow(cs, hist, r) ==
    IF TooShort(r)
    THEN [courses |-> cs, added |-> hist, raised |-> FALSE]
    ELSE IF UnpackFails(r)
    THEN [courses |-> cs, added |-> hist, raised |-> TRUE]
    ELSE IF HasEmptyField(r) \/ ParseFails(r)
    THEN [courses |-> cs, added |-> hist, raised |-> FALSE]
    ELSE [courses |-> IngestRow(cs, r),
          added |-> Record(hist, <<Lower(r[8]), RowGroup(r), r[2]>>),
          raised |-> FALSE]

ReadCsvRow(r) ==
    /\ pc = "read_csv"
    /\ line_num < MaxRows
    /\ row' = r
    /\ line_num' = line_num + 1
    /\ LET after == AfterRow(courses, added, r)
       IN  /\ courses' = after.courses
           /\ added' = after.added
           /\ pc' = IF after.raised THEN "csv_raised" ELSE pc
    /\ UNCHANGED <<applied, week_map, courses_to_convert, events>>

\* the reader is exhausted and read_csv_files returns
ReadCsvEnd ==
    /\ pc = "read_csv"
    /\ pc' = "csv_done"
    /\ row' = NoRow
    /\ line_num' = 0
    /\ UNCHANGED <<courses, added, applied, week_map, courses_to_convert,
                   events>>

Next ==
    \/ \E r \in Rows : ReadCsvRow(r)
    \/ ReadCsvEnd

Spec == Init /\ [][Next]_vars

-----------------------------------------------------------------------------
(* Properties of the timetable ingestion *)

RECURSIVE TotalLength(_)
TotalLength(group_list) ==
    IF group_list = <<>> THEN 0
    ELSE Head(group_list).course_length + TotalLength(Tail(group_list))

\* what Courses.get_course(sigle).get_specific_group(type, number) holds
BucketOf(cs, sigle, type, number) ==
    IF sigle \in DOMAIN cs THEN GetSpecificGroup(cs[sigle], type, number)
    ELSE <<>>

\* all required fields non-empty, group number and credit count parsable
WellFormed(r) ==
    /\ Len(r) = 15
    /\ ~HasEmptyField(r)
    /\ ~ParseFails(r)

AllSigles == {r[2] : r \in {q \in Rows : Len(q) >= 2}}

\* the step read a well-formed row whose field `col` is C or L, and the
\* bucket of that type, of the row's course and group number, gained one
\* raw Group (of course length 1) while every other bucket kept its content
ContributesOneGroup(col) ==
    (/\ pc = "read_csv"
     /\ line_num' = line_num + 1
     /\ WellFormed(row')
     /\ Lower(row'[col]) \in {"c", "l"})
    => \A s \in AllSigles, t \in {"c", "l"}, n \in Numbers :
          TotalLength(BucketOf(courses', s, t, n)) =
             TotalLength(BucketOf(courses, s, t, n))
             + (IF <<s, t, n>> = <<row'[2], Lower(row'[col]), IntOf(row'[3])>>
                THEN 1 ELSE 0)

\* C6 (as claimed): a well-formed row whose group type field, column [10],
\* is C or L in any letter case contributes exactly one pre-merge Group, to
\* the bucket of that type of the row's course and group number.
C6_RoutedByColumn10 == [][ContributesOneGroup(11)]_vars

\* C6 (amended): a well-formed row whose period type field, column [7], is
\* C or L in any letter case contributes exactly one pre-merge Group, to the
\* bucket of that type (C -> theoretical, L -> lab) of the row's course and
\* group number; column [10] only has to be non-empty.
C6_RoutedByColumn7 == [][ContributesOneGroup(8)]_vars

C6_Witness ==
    /\ pc = "read_csv"
    /\ line_num = 2
    /\ WellFormed(row)
    /\ row[8] = "l" /\ row[11] = "C"
    /\ TotalLength(BucketOf(courses, row[2], "l", IntOf(row[3]))) = 2
    /\ TotalLength(BucketOf(courses, row[2], "c", IntOf(row[3]))) = 0

C5_Witness ==
    /\ pc = "read_csv"
    /\ \E b \in Buckets :
          \E g \in Range(b[3]) : g.hour = <<830, 830, 930>>

\* C9: once the file is open no row makes read_csv_files fail: a malformed
\* row (fewer or more than 15 fields, an empty required field, an
\* unparsable number) is skipped with the registry unchanged and the loop
\* goes on to the next row.
C9_NoRowMakesIngestionFail ==
    [][(pc = "read_csv" /\ line_num' = line_num + 1)
        => /\ pc' = "read_csv"
           /\ ~WellFormed(row') => courses' = courses]_vars

-----------------------------------------------------------------------------
(* Courses.read_alternance_csv                                              *)

\* datetime.strptime(date_str, '%Y-%m-%d'): the day number within 2024
IsDateString(str) == str \in {"2024-09-30", "2024-10-01", "2024-10-02"}
StrpTime(str) ==
    CASE str = "2024-09-30" -> 274
      [] str = "2024-10-01" -> 275
      [] str = "2024-10-02" -> 276

\* datetime(2024, 10, 1)
OCT1 == 275

AltRows ==
    {<<d, day_name, week_type>> :
        d \in {"2024-09-30", "2024-10-01", "2024-10-02"},
        day_name \in {"LUNDI", " mardi "},
        week_type \in {"B1", " b2"}}
    \cup {<<"01/10/2024", "LUNDI", "B1">>,
          <<"2024-10-01", "LUNDI">>,
          <<"2024-10-01", "LUNDI", "B1", "">>}

MaxAltRows == 3

\* week_map[date] = {...}
SetItem(map, key, value) ==
    [k \in DOMAIN map \cup {key} |-> IF k = key THEN value ELSE map[k]]

\* one iteration of `for row in reader` (lines 151-162)
ReadAlternanceRow(r) ==
    /\ pc = "read_alternance"
    /\ line_num < MaxAltRows
    /\ row' = r
    /\ line_num' = line_num + 1
    /\ IF Len(r) < 3
       THEN UNCHANGED <<pc, week_map>>
       ELSE IF Len(r) # 3
       THEN pc' = "alternance_raised" /\ UNCHANGED week_map
       ELSE IF ~IsDateString(r[1])
       THEN UNCHANGED <<pc, week_map>>
       ELSE /\ week_map' = SetItem(week_map, StrpTime(r[1]),
                                   [day_name |-> Upper(Strip(r[2])),
                                    week_type |-> Upper(Strip(r[3]))])
            /\ pc' = pc
    /\ UNCHANGED <<courses, added, applied, courses_to_convert, events>>

\* the reader is exhausted and read_alternance_csv returns week_map
ReadAlternanceEnd ==
    /\ pc = "read_alternance"
    /\ pc' = "generate"
    /\ row' = NoRow
    /\ line_num' = 0
    /\ UNCHANGED <<courses, added, applied, week_map, courses_to_convert,
                   events>>

-----------------------------------------------------------------------------
(* generate_ics_file *)

FullDayToAbbreviation(full_day_name) ==
    CASE full_day_name = "LUNDI" -> "LUN"
      [] full_day_name = "MARDI" -> "MAR"
      [] full_day_name = "MERCREDI" -> "MER"
      [] full_day_name = "JEUDI" -> "JEU"
      [] full_day_name = "VENDREDI" -> "VEN"
      [] full_day_name = "SAMEDI" -> "SAM"
      [] full_day_name = "DIMANCHE" -> "DIM"
      [] OTHER -> full_day_name

Min(S) == CHOOSE x \in S : \A y \in S : x <= y
Max(S) == CHOOSE x \in S : \A y \in S : y <= x

DayAbbrNoException(current_date, alternance_info) ==
    FullDayToAbbreviation(alternance_info.day_name)

\* lines 187-193
DayAbbr(current_date, alternance_info) ==
    IF current_date = OCT1 THEN "LUN"
    ELSE FullDayToAbbreviation(alternance_info.day_name)

\* the condition of lines 199-203
Matches(group, current_date, alternance_info) ==
    LET frequency == Lower(group.frequency)
        week_type == alternance_info.week_type
    IN  /\ DayAbbr(current_date, alternance_info) = Upper(group.week_day)
        /\ \/ frequency = "every_week"
           \/ frequency = "b1" /\ week_type = "B1"
           \/ frequency = "b2" /\ week_type = "B2"

MakeEventByCourseLength(course, group_type, group, current_date, index) ==
    LET start_time_str == group.hour[1]
    IN  [name |-> <<course.sigle, course.name, group.number,
                    IF group_type = "c" THEN "COURS" ELSE "LAB">>,
         begin |-> [date |-> current_date,
                    hour |-> start_time_str \div 100,
                    minute |-> start_time_str % 100],
         duration |-> group.course_length,
         location |-> group.room,
         alarm |-> -30,
         source |-> <<index, group, current_date>>]

\* lines 204-221; `source` is not a field of ics.Event: it records the
\* selection entry, the Group and the day the event was built for
MakeEvent(course, group_type, group, current_date, index) ==
    LET start_time_str == group.hour[1]
    IN  [name |-> <<course.sigle, course.name, group.number,
                    IF group_type = "c" THEN "COURS" ELSE "LAB">>,
         begin |-> [date |-> current_date,
                    hour |-> start_time_str \div 100,
                    minute |-> start_time_str % 100],
         duration |-> Len(group.hour),
         location |-> group.room,
         alarm |-> -30,
         source |-> <<index, group, current_date>>]

RECURSIVE WalkDatesExclusive(_, _, _, _, _, _, _)
WalkDatesExclusive(course, group_type, group, index, map, current_date, end_date) ==
    IF ~(current_date < end_date) THEN <<>>
    ELSE (IF current_date \in DOMAIN map
             /\ Matches(group, current_date, map[current_date])
          THEN <<MakeEvent(course, group_type, group, current_date, index)>>
          ELSE <<>>)
         \o WalkDatesExclusive(course, group_type, group, index, map,
                               current_date + 1, end_date)

\* the while loop of lines 182-225, from current_date on
RECURSIVE WalkDates(_, _, _, _, _, _, _)
WalkDates(course, group_type, group, index, map, current_date, end_date) ==
    IF ~(current_date <= end_date) THEN <<>>
    ELSE (IF current_date \in DOMAIN map
             /\ Matches(group, current_date, map[current_date])
          THEN <<MakeEvent(course, group_type, group, current_date, index)>>
          ELSE <<>>)
         \o WalkDates(course, group_type, group, index, map,
                      current_date + 1, end_date)

\* `for group in groups` (lines 179-225)
RECURSIVE ForGroups(_, _, _, _, _)
ForGroups(course, group_type, groups, index, map) ==
    IF groups = <<>> THEN <<>>
    ELSE WalkDates(course, group_type, Head(groups), index, map,
                   Min(DOMAIN map), Max(DOMAIN map))
         \o ForGroups(course, group_type, Tail(groups), index, map)

\* the body of the selection loops for entry `index` (lines 173-225);
\* an entry is <<course_code, group_type, group_number>>
ForEntry(cs, selection, index, map) ==
    LET course_code == selection[index][1]
        group_type == selection[index][2]
        group_number == selection[index][3]
    IN  IF course_code \in DOMAIN cs
        THEN ForGroups(cs[course_code], group_type,
                       GetSpecificGroup(cs[course_code], group_type, group_number),
                       index, map)
        ELSE <<>>

\* the events added to the calendar by entries index.. of the selection
RECURSIVE Expand(_, _, _, _)
Expand(cs, selection, index, map) ==
    IF index > Len(selection) THEN <<>>
    ELSE ForEntry(cs, selection, index, map)
         \o Expand(cs, selection, index + 1, map)

\* read_csv_files on a whole file
RECURSIVE ReadCsvFiles(_, _, _)
ReadCsvFiles(cs, hist, rows) ==
    IF rows = <<>> THEN [courses |-> cs, added |-> hist, raised |-> FALSE]
    ELSE LET after == AfterRow(cs, hist, Head(rows))
         IN  IF after.raised THEN after
             ELSE ReadCsvFiles(after.courses, after.added, Tail(rows))

LogRow(room, period_type, week_nb, week_day, hour) ==
    MkRow("LOG1810", "1", "3,0", room, period_type, week_nb, period_type,
          NAME, week_day, hour)

TimetableFiles ==
    {<<LogRow("B-2325", "C", "I", "LUN", <<930>>),
       LogRow("B-2325", "C", "I", "LUN", <<830>>),
       LogRow("L-4708", "l", "", "lun", <<1330, 1230>>),
       LogRow("B-2325", "C", "P", "MAR", <<1030>>)>>,
     <<LogRow("L-4708", "L", "P", "LUN", <<830>>),
       SubSeq(BaseRow, 1, 14),
       LogRow("B-2325", "C", "", "MAR", <<1030, 1130>>),
       LogRow("L-4708", "L", "I", "MAR", <<1230>>)>>,
     <<LogRow("B-2325", "C", "I", "lun", <<830>>),
       LogRow("B-2325", "C", "I", "LUN", <<830>>)>>}

Entries == {<<"LOG1810", "c", 1>>, <<"LOG1810", "l", 1>>,
            <<"MTH1101", "c", 1>>, <<"LOG1810", "x", 1>>,
            <<"LOG1810", "c", 2>>}

MaxSelection == 2

Selections == SeqsUpTo(Entries, MaxSelection)

\* the program after read_csv_files has returned the registry of a file
InitExpand ==
    /\ pc = "read_alternance"
    /\ row = NoRow
    /\ line_num = 0
    /\ \E file \in TimetableFiles :
          LET read == ReadCsvFiles(NoCourses, NoHistory, file)
          IN  courses = read.courses /\ added = read.added
    /\ applied = 0
    /\ week_map = <<>>
    /\ courses_to_convert = <<>>
    /\ events = <<>>

\* generate_ics_file(courses_manager, selection, filename, alternance_map)
GenerateIcsFile(selection) ==
    /\ pc = "generate"
    /\ courses_to_convert' = selection
    /\ IF DOMAIN week_map = {}
       THEN pc' = "generate_raised" /\ events' = <<>>
       ELSE pc' = "done" /\ events' = Expand(courses, selection, 1, week_map)
    /\ UNCHANGED <<row, line_num, courses, added, applied, week_map>>

NextExpand ==
    \/ \E r \in AltRows : ReadAlternanceRow(r)
    \/ ReadAlternanceEnd
    \/ \E selection \in Selections : GenerateIcsFile(selection)

SpecExpand == InitExpand /\ [][NextExpand]_vars

-----------------------------------------------------------------------------
(* Properties of the calendar expansion *)

\* the calendar days looked at: the dates of the alternance rows and the
\* days around them
Calendar == 272..278

Earliest == Min(DOMAIN week_map)
Latest == Max(DOMAIN week_map)

\* the Groups selection entry i resolves to
SelectedGroups(i) ==
    BucketOf(courses, courses_to_convert[i][1], courses_to_convert[i][2],
             courses_to_convert[i][3])

\* the events emitted for entry i, Group g and day d
EventCount(i, g, d) ==
    Cardinality({k \in 1..Len(events) :
                    /\ events[k].source[1] = i
                    /\ events[k].source[2] = g
                    /\ events[k].begin.date = d})

FrequencyPasses(frequency, week_type) ==
    CASE frequency = "every_week" -> TRUE
      [] frequency = "B1" -> week_type = "B1"
      [] frequency = "B2" -> week_type = "B2"
      [] OTHER -> FALSE

\* the Group's weekday token, compared as the code compares it (upper-cased)
WeekdayToken(g) == Upper(g.week_day)

ShouldEmit(g, d) ==
    /\ d \in DOMAIN week_map
    /\ Earliest <= d /\ d <= Latest
    /\ DayAbbr(d, week_map[d]) = WeekdayToken(g)
    /\ FrequencyPasses(g.frequency, week_map[d].week_type)

CollapsedRows(e, g) ==
    CallsFor(<<Lower(e[2]), e[3], <<>>, e[1]>>, GroupKey(g))

\* C7: every event emitted for a (Group, day) pair starts on that day at
\* the time of the first token of the Group's hour-list, which is its
\* earliest token, and lasts as many hours as the hour-list has tokens,
\* which for a merged Group is the total number of hour tokens of the rows
\* collapsed into it.
C7_StartAndDuration ==
    pc = "done" =>
        \A k \in 1..Len(events) :
            LET e == courses_to_convert[events[k].source[1]]
                g == events[k].source[2]
                d == events[k].source[3]
            IN  /\ events[k].begin = [date |-> d,
                                      hour |-> g.hour[1] \div 100,
                                      minute |-> g.hour[1] % 100]
                /\ \A j \in 1..Len(g.hour) : g.hour[1] <= g.hour[j]
                /\ events[k].duration = Len(g.hour)
                /\ Len(g.hour) =
                      SumFn([c \in CollapsedRows(e, g) |->
                                added[c] * Len(c[2].hour)])

C7_Witness ==
    /\ pc = "done"
    /\ \E k \in 1..Len(events) :
          /\ events[k].source[2].course_length = 2
          /\ events[k].duration = 2
          /\ events[k].begin = [date |-> 274, hour |-> 8, minute |-> 30]
    /\ \E k \in 1..Len(events) :
          /\ events[k].source[2].course_length = 1
          /\ events[k].duration = 2
          /\ events[k].begin.hour = 12 /\ events[k].begin.minute = 30

HasBucket(e) ==
    /\ e[1] \in DOMAIN courses
    /\ \/ Lower(e[2]) = "c" /\ e[3] \in DOMAIN courses[e[1]].theo_groups
       \/ Lower(e[2]) = "l" /\ e[3] \in DOMAIN courses[e[1]].lab_groups

\* an event without the index of the selection entry it was built for
Visible(ev) ==
    [name |-> ev.name, begin |-> ev.begin, duration |-> ev.duration,
     location |-> ev.location, alarm |-> ev.alarm]

VisibleEvents(evs) == [k \in 1..Len(evs) |-> Visible(evs[k])]

\* C10: with a non-empty alternance map, generate_ics_file completes, no
\* event comes from a selection entry whose course, group type or group
\* number has no bucket, and the events are those of the selection with
\* these entries removed.
C10_UnresolvedEntriesContributeNothing ==
    (pc \in {"done", "generate_raised"} /\ DOMAIN week_map # {}) =>
        /\ pc = "done"
        /\ \A k \in 1..Len(events) :
              HasBucket(courses_to_convert[events[k].source[1]])
        /\ VisibleEvents(events) =
              VisibleEvents(Expand(courses,
                                   SelectSeq(courses_to_convert, HasBucket),
                                   1, week_map))

C10_Witness ==
    /\ pc = "done"
    /\ Len(courses_to_convert) = 2
    /\ courses_to_convert[1][1] \notin DOMAIN courses
    /\ HasBucket(courses_to_convert[2])
    /\ events # <<>>

C10_WitnessNoBucket ==
    /\ pc = "done"
    /\ Len(courses_to_convert) = 2
    /\ courses_to_convert[2] \in {<<"LOG1810", "x", 1>>, <<"LOG1810", "c", 2>>}
    /\ HasBucket(courses_to_convert[1])
    /\ events # <<>>

=============================================================================
